---- MODULE Spec2Model ----
(***************************************************************************)
(* Front-end widgets of vikasyadavv.github.io: the Google Scholar stats    *)
(* widget (cache, retry, stale fallback), the blog loader (pagination),    *)
(* the chat widget, the analytics tracker and the OCR tool.  Each widget   *)
(* is a small state machine driven by browser events and by the settling   *)
(* of the fetch promises it started.                                       *)
(***************************************************************************)
EXTENDS Integers, Sequences, FiniteSets, TLC

(***************************************************************************)
(* Bounds of the model.                                                    *)
(***************************************************************************)
MaxLoads == 3        \* page loads (ScholarStatsWidget.init calls) explored
MaxTicks == 2        \* clock jumps between events

(***************************************************************************)
(* State.                                                                  *)
(***************************************************************************)
VARIABLES
    scholar_stats_cache,  \* localStorage entry of the Scholar widget
    loads,                \* page loads so far
    s_pc,                 \* "idle", "fetching", "waiting", "done"
    container,            \* does #scholar-stats-widget exist on this page
    attempt,              \* loop variable of fetchStats
    requests,             \* HTTP requests issued by this fetchStats call
    failed,               \* attempts of this call that ended in the catch block
    delays,               \* backoff waits of this call, in order
    startCache,           \* cache entry seen by getCachedData() at the start
    startAge,             \* its age then (-1 when there was none)
    responseOk,           \* response.ok of the attempt settled last
    fetchResult,          \* "none", "returned", "thrown"
    returned,             \* metrics fetchStats returned
    source,               \* "none", "cache", "network", "stale"
    widgetView,           \* "none", "loading", "metrics", "error"
    escaped               \* an exception left init

scholarVars == <<scholar_stats_cache, loads, s_pc, container, attempt, requests,
                 failed, delays, startCache, startAge, responseOk, fetchResult, returned,
                 source, widgetView, escaped>>

VARIABLES
    isBlogPage,           \* window.location.pathname.includes('/blog/')
    blogLoads,            \* page loads of a page that runs blog.js
    b_pc,                 \* BlogLoader.init: "idle", "fetching", "done"
    b_requests,           \* requests issued by this BlogLoader.init call
    b_reply,              \* kind of the reply to init's fetch ("none" before)
    allPosts,             \* data.posts that init's fetchPosts returned
    b_outcome,            \* "none", "rendered", "failed"
    initRendered,         \* init handed a post list to a render function
    initEscaped,          \* an exception left BlogLoader.init
    currentPage,          \* blog.js 20
    totalPages,           \* blog.js 21
    allValidPosts,        \* blog.js 22
    lastPosts,            \* posts argument of the latest renderPosts call
    lastPage,             \* page argument of the latest renderPosts call (0: none)
    grid,                 \* cards in #blog-posts-grid
    gridVisible,
    loadingVisible,       \* #loading-indicator
    noPostsVisible,       \* #no-posts-message
    paginationVisible,    \* #pagination-section
    pageLinks,            \* links written into #pagination-section
    errorVisible,         \* #error-container
    errorText,            \* #error-text
    latestPosts,          \* cards in #latest-posts (homepage)
    blog_rotation_index,  \* localStorage
    blog_last_rotation,   \* localStorage
    searches,             \* search requests in flight: [id, query, sent]
    searchCount,
    searchResult,         \* per search submitted: pending, failed, or the list it rendered
    clicks

blogDom == <<grid, gridVisible, loadingVisible, noPostsVisible, paginationVisible,
             pageLinks, errorVisible, errorText, latestPosts>>
blogPaging == <<currentPage, totalPages, allValidPosts, lastPosts, lastPage>>
blogStorage == <<blog_rotation_index, blog_last_rotation>>
blogCtl == <<isBlogPage, blogLoads, b_pc, b_requests, b_reply, allPosts, b_outcome,
             initRendered, initEscaped, searches, searchCount, searchResult, clicks>>
blogVars == <<blogDom, blogPaging, blogStorage, blogCtl>>

VARIABLES
    chatInputValue,       \* #chat-input value
    inputDisabled,        \* #chat-input disabled
    sendDisabled,         \* #chat-send disabled
    typingIndicators,     \* #typing-indicator elements in #chat-messages
    messageHistory,       \* ChatWidget.messageHistory
    sessionId,            \* ChatWidget.sessionId
    chat_history,         \* localStorage chat_history_<session>, by session id
    connectionStatus,     \* class of #connection-status
    reconnectAttempts,    \* ChatWidget.reconnectAttempts
    statusTimers,         \* pending 2 s timers of handleConnectionError
    welcomePending,       \* the 1 s timer of showWelcomeMessage is pending
    chatInFlight,         \* chat requests in flight: [id, sent]
    chatSends,            \* chat requests started
    chatSettled,          \* chat requests settled
    lastChatOutcome,      \* kind of the reply settled last ("none" before)
    chatEscaped           \* an exception left sendMessage

chatVars == <<chatInputValue, inputDisabled, sendDisabled, typingIndicators,
              messageHistory, sessionId, chat_history, connectionStatus,
              reconnectAttempts, statusTimers, welcomePending, chatInFlight,
              chatSends, chatSettled, lastChatOutcome, chatEscaped>>

VARIABLES
    apiUrl,               \* Analytics.apiUrl ("" until init)
    isOnline,             \* Analytics.isOnline
    queue,                \* Analytics.queue (event ids)
    eventsInFlight,       \* events whose fetch is pending
    eventsDelivered,      \* events whose fetch resolved
    sendsOf,              \* event id -> number of fetches issued for it
    lastBatch,            \* events that processQueue sent in the tracker's latest
                          \* handler, in sending order
    nextEvent             \* id of the next tracked event

analyticsVars == <<apiUrl, isOnline, queue, eventsInFlight, eventsDelivered,
                   sendsOf, lastBatch, nextEvent>>

VARIABLES
    autoTrack,            \* Analytics.autoTrack
    maxScrollDepth,       \* closure variable of the scroll listener
    scrollTracked         \* depths of the scroll_depth events tracked, in order

scrollVars == <<autoTrack, maxScrollDepth, scrollTracked>>

VARIABLES
    ocrInFlight,             \* OCR requests in flight: [id, kind, sent]
    ocrCount,                \* OCR requests started
    ocrButtonsDisabled,      \* both submit buttons (showProcessing)
    ocrErrorVisible,         \* #error-section
    ocrResultsVisible,       \* #results-section
    ocrReply,                \* what the OCR request that settled last was answered
    processingHistory,       \* OCRTool.processingHistory
    ocr_processing_history   \* localStorage

ocrVars == <<ocrInFlight, ocrCount, ocrButtonsDisabled, ocrErrorVisible,
             ocrResultsVisible, ocrReply, processingHistory, ocr_processing_history>>

VARIABLES
    auth_token,           \* localStorage
    isAuthenticated,      \* VikasYadavApp.isAuthenticated
    currentUser,          \* VikasYadavApp.currentUser ("null" until set)
    appLoads,             \* page loads that construct VikasYadavApp
    authPending,          \* the /api/auth/me request of this page is in flight
    authRequests,         \* /api/auth/me requests issued by this page
    authReply             \* how the latest validation settled ("none" before)

appVars == <<auth_token, isAuthenticated, currentUser, appLoads, authPending,
             authRequests, authReply>>

VARIABLES
    now,                  \* Date.now()
    ticks,                \* clock jumps taken
    budget                \* how many operations of each kind the user performs

clockVars == <<now, ticks>>
vars == <<clockVars, budget, scholarVars, blogVars, chatVars, analyticsVars, ocrVars,
          appVars, scrollVars>>

\* What an action of one widget leaves alone.
notScholar == <<budget, blogVars, chatVars, analyticsVars, ocrVars, appVars, scrollVars>>
notBlog == <<budget, scholarVars, chatVars, analyticsVars, ocrVars, appVars, scrollVars>>
notChat == <<budget, clockVars, scholarVars, blogVars, analyticsVars, ocrVars, appVars,
             scrollVars>>
notAnalytics == <<budget, clockVars, scholarVars, blogVars, chatVars, ocrVars, appVars>>
notOcr == <<budget, clockVars, scholarVars, blogVars, chatVars, appVars, scrollVars>>
notApp == <<budget, clockVars, scholarVars, blogVars, chatVars, analyticsVars, ocrVars,
            scrollVars>>

\* No operation of any kind.  A widget whose budget is 0 is not on the page.
NoBudget ==
    [loads |-> 0, ticks |-> 0, blogLoads |-> 0, searches |-> 0, clicks |-> 0,
     renders |-> 0, chat |-> 0, messages |-> 0, events |-> 0, ocr |-> 0,
     historyAdds |-> 0, authLoads |-> 0, scrolls |-> 0, longRenders |-> 0]

\* Date.now() at the first page load: later than any interval the code
\* compares against.
StartTime == 4 * 24 * 60 * 60 * 1000

(***************************************************************************)
(* ScholarStatsWidget: constructor constants (blog.js 547-554).            *)
(***************************************************************************)
cacheDuration == 3 * 24 * 60 * 60 * 1000
retryAttempts == 3
retryDelay == 1000

NoCache == [present |-> FALSE]
NoMetrics == [found |-> FALSE]

\* A metrics object as far as the widget looks at it: whether it has a truthy
\* All field, whether it has a usable "Since ..." entry, and which response
\* it came from.
Metrics(all, since, ver) == [found |-> TRUE, All |-> all, Since |-> since, ver |-> ver]

ResponseKinds ==
    {"reject", "httpError", "badJson", "noResponse", "stringUnparsable",
     "stringArray", "stringObject", "stringOther", "object", "array", "unknownFormat"}

\* What a fetch can settle with: the kind of reply and the metrics object
\* the reply carries at the place the format puts it (if any).
Responses(ver) ==
    [kind : ResponseKinds, hasMetrics : BOOLEAN, All : BOOLEAN, Since : BOOLEAN, ver : {ver}]

\* blog.js 627-664: pull the metrics object out of the reply body.
ExtractMetrics(r) ==
    IF r.kind \in {"stringArray", "stringObject", "object", "array"} /\ r.hasMetrics
    THEN Metrics(r.All, r.Since, r.ver)
    ELSE NoMetrics

\* blog.js 598-673: does the attempt end in the catch block of the loop?
AttemptFails_noAllCheck(r) ==
    \/ r.kind \in {"reject", "httpError", "badJson"}
    \/ ~ExtractMetrics(r).found
AttemptFails(r) ==
    \/ r.kind \in {"reject", "httpError", "badJson"}
    \/ ~ExtractMetrics(r).found
    \/ ~ExtractMetrics(r).All

\* blog.js 597 / 678: is another attempt made after failed attempt a?
MoreAttempts_extra(a) == a < retryAttempts + 1
MoreAttempts(a) == a < retryAttempts

\* blog.js 680: the wait after failed attempt a.
BackoffDelay_flat(a) == retryDelay
BackoffDelay(a) == retryDelay * a

\* blog.js 710-716: the freshness test of getCachedData.
IsFresh_inclusive(age) == age <= cacheDuration
IsFresh(age) == age < cacheDuration

\* blog.js 699-725: getCachedData(ignoreExpiry); NoMetrics stands for null.
GetCachedData(c, t, ignoreExpiry) ==
    IF ~c.present THEN NoMetrics
    ELSE IF ignoreExpiry THEN c.metrics
    ELSE IF IsFresh(t - c.timestamp) THEN c.metrics
    ELSE NoMetrics

\* blog.js 730-742: cacheData; a failing setItem is caught and leaves the
\* stored entry as it was.
CacheData(c, m, t, stored) ==
    IF stored THEN [present |-> TRUE, metrics |-> m, timestamp |-> t] ELSE c

\* blog.js 780-792, 1053: render dereferences metrics.All and the first
\* "Since ..." entry; it throws a TypeError when that entry is missing.
RenderThrows(m) == ~m.All \/ ~m.Since

\* blog.js 569-580: init's try/catch around fetchStats and render.
InitOutcome_uncaught(thrown, m) ==
    IF thrown THEN [view |-> "error", escaped |-> FALSE]
    ELSE IF RenderThrows(m) THEN [view |-> "loading", escaped |-> TRUE]
    ELSE [view |-> "metrics", escaped |-> FALSE]
InitOutcome(thrown, m) ==
    IF thrown \/ RenderThrows(m) THEN [view |-> "error", escaped |-> FALSE]
    ELSE [view |-> "metrics", escaped |-> FALSE]

ScholarInitState ==
    /\ scholar_stats_cache = NoCache
    /\ loads = 0
    /\ s_pc = "idle"
    /\ container = TRUE
    /\ attempt = 0
    /\ requests = 0
    /\ failed = 0
    /\ delays = <<>>
    /\ startCache = NoCache
    /\ startAge = -1
    /\ responseOk = FALSE
    /\ fetchResult = "none"
    /\ returned = NoMetrics
    /\ source = "none"
    /\ widgetView = "none"
    /\ escaped = FALSE

\* Time passes between events: a millisecond, or up to the cache lifetime.
TickSteps == {1, cacheDuration - 1, cacheDuration}
Tick ==
    /\ ticks < budget.ticks
    /\ \E d \in TickSteps : now' = now + d
    /\ ticks' = ticks + 1
    /\ UNCHANGED <<budget, scholarVars, blogVars, chatVars, analyticsVars, ocrVars,
                   appVars, scrollVars>>

\* fetchStats returns m (or throws) and init goes on to render / showError.
Finish(thrown, m, src) ==
    /\ s_pc' = "done"
    /\ fetchResult' = IF thrown THEN "thrown" ELSE "returned"
    /\ returned' = IF thrown THEN NoMetrics ELSE m
    /\ source' = src
    /\ widgetView' = InitOutcome(thrown, m).view
    /\ escaped' = InitOutcome(thrown, m).escaped

\* A page load: new ScholarStatsWidget().init() (blog.js 1164-1167, 559-571)
\* and fetchStats up to its first await (586-616).
ScholarInit ==
    /\ s_pc \in {"idle", "done"}
    /\ loads < budget.loads
    /\ loads' = loads + 1
    /\ delays' = <<>>
    /\ failed' = 0
    /\ responseOk' = FALSE
    /\ \E c \in BOOLEAN :
        /\ container' = c
        /\ IF ~c
           THEN /\ s_pc' = "done"
                /\ widgetView' = "none"
                /\ escaped' = FALSE
                /\ fetchResult' = "none"
                /\ returned' = NoMetrics
                /\ source' = "none"
                /\ attempt' = 0
                /\ requests' = 0
                /\ startCache' = NoCache
                /\ startAge' = -1
           ELSE /\ startCache' = scholar_stats_cache
                /\ startAge' = IF scholar_stats_cache.present
                               THEN now - scholar_stats_cache.timestamp ELSE -1
                /\ LET cached == GetCachedData(scholar_stats_cache, now, FALSE) IN
                   IF cached.found
                   THEN /\ Finish(FALSE, cached, "cache")
                        /\ attempt' = 0
                        /\ requests' = 0
                   ELSE /\ s_pc' = "fetching"
                        /\ attempt' = 1
                        /\ requests' = 1
                        /\ widgetView' = "loading"
                        /\ escaped' = FALSE
                        /\ fetchResult' = "none"
                        /\ returned' = NoMetrics
                        /\ source' = "none"
    /\ UNCHANGED <<scholar_stats_cache, clockVars, notScholar>>

\* The fetch of the current attempt settles with reply r (blog.js 618-692).
FetchSettles ==
    /\ s_pc = "fetching"
    /\ \E r \in Responses(loads), stored \in BOOLEAN :
        /\ responseOk' = (r.kind \notin {"reject", "httpError"})
        /\ IF ~AttemptFails(r)
           THEN /\ scholar_stats_cache' =
                       CacheData(scholar_stats_cache, ExtractMetrics(r), now, stored)
                /\ Finish(FALSE, ExtractMetrics(r), "network")
                /\ UNCHANGED failed
           ELSE /\ failed' = failed + 1
                /\ UNCHANGED scholar_stats_cache
                /\ IF MoreAttempts(attempt)
                   THEN /\ s_pc' = "waiting"
                        /\ UNCHANGED <<fetchResult, returned, source, widgetView, escaped>>
                   ELSE LET expiredCache == GetCachedData(scholar_stats_cache, now, TRUE) IN
                        IF expiredCache.found
                        THEN Finish(FALSE, expiredCache, "stale")
                        ELSE Finish(TRUE, NoMetrics, "none")
    /\ UNCHANGED <<loads, container, attempt, requests, delays, startCache, startAge,
                   clockVars, notScholar>>

\* The backoff timer fires and the loop starts the next attempt (680, 597-616).
BackoffElapsed ==
    /\ s_pc = "waiting"
    /\ now' = now + BackoffDelay(attempt)
    /\ delays' = Append(delays, BackoffDelay(attempt))
    /\ attempt' = attempt + 1
    /\ requests' = requests + 1
    /\ s_pc' = "fetching"
    /\ UNCHANGED <<ticks, scholar_stats_cache, loads, container, failed, startCache,
                   startAge, responseOk, fetchResult, returned, source, widgetView, escaped,
                   notScholar>>

(***************************************************************************)
(* Blog loader (blog.js 7-535): CONFIG, the pagination state, filterPosts, *)
(* renderPosts / renderPagination, renderHomepagePosts, BlogLoader.init    *)
(* and the search form.  The elements the functions look up by id are      *)
(* taken to exist on the page they run on.                                 *)
(***************************************************************************)
MaxPosts == 13       \* longest list of valid posts an API reply carries
MaxPageArg == 4      \* largest page argument handed to renderPosts directly
MaxBlogLoads == 2    \* loads of a page that runs BlogLoader.init
MaxSearches == 1     \* search submissions per page load
MaxClicks == 2       \* page-link clicks per page load
MaxLongPages == 8    \* pages of the longest list rendered when the links are explored
MaxPageClicks == 3   \* page-link clicks when the page links are explored

POSTS_PER_PAGE == 6
VALID_STATUSES == {"ready", "posted"}
ROTATION_INTERVAL == 7200000

Undefined == "<undefined>"
NaN == -1

Min(a, b) == IF a < b THEN a ELSE b
Max(a, b) == IF a > b THEN a ELSE b

\* Math.ceil(n / k) for n >= 0, k > 0.
Ceil(n, k) == (n + k - 1) \div k

\* Array.prototype.slice(start, end) with 0-based, end-exclusive indices.
Slice(s, start, end) ==
    LET from == IF start < 0 THEN Max(Len(s) + start, 0) ELSE Min(start, Len(s))
        to == IF end < 0 THEN Max(Len(s) + end, 0) ELSE Min(end, Len(s))
    IN SubSeq(s, from + 1, to)

\* String.prototype.trim / toLowerCase on the strings the sample posts use.
Trim(str) ==
    CASE str = "  " -> ""
      [] str = " Posted " -> "Posted"
      [] str = " posted " -> "posted"
      [] OTHER -> str
ToLowerCase(str) ==
    CASE str = "Ready" -> "ready"
      [] str = " Posted " -> " posted "
      [] str = "Posted" -> "posted"
      [] str = "Draft" -> "draft"
      [] OTHER -> str

\* blog.js 210-219: the predicate of filterPosts.
KeepPost_noTrim(post) ==
    IF post.idea = Undefined \/ post.idea = "" \/ Trim(post.idea) = ""
    THEN FALSE
    ELSE LET status == ToLowerCase(IF post.status = Undefined THEN "" ELSE post.status)
         IN status \in VALID_STATUSES
KeepPost(post) ==
    IF post.idea = Undefined \/ post.idea = "" \/ Trim(post.idea) = ""
    THEN FALSE
    ELSE LET status == Trim(ToLowerCase(IF post.status = Undefined THEN "" ELSE post.status))
         IN status \in VALID_STATUSES

\* blog.js 209-220: filterPosts.
FilterPosts(posts) == SelectSeq(posts, KeepPost)

\* Posts as the API returns them: n posts that pass the filter (ids 1..n, in
\* ascending or descending order), optionally each followed by a post the
\* filter drops.
ValidPost(i) ==
    [id |-> i,
     idea |-> IF i % 2 = 0 THEN "text even" ELSE "text odd",
     status |-> CASE i % 3 = 0 -> "Ready" [] i % 3 = 1 -> " Posted " [] OTHER -> "posted"]
JunkPost(i) ==
    [id |-> 100 + i,
     idea |-> CASE i % 3 = 0 -> "  " [] i % 3 = 1 -> "text even" [] OTHER -> Undefined,
     status |-> CASE i % 3 # 1 /\ i % 4 = 2 -> "posted"
                  [] i % 3 # 1 /\ i % 4 = 3 -> "Ready"
                  [] i % 2 = 0 -> "Draft"
                  [] OTHER -> Undefined]
ApiPosts(n, junk, rev) ==
    LET idAt(k) == IF rev THEN n + 1 - k ELSE k IN
    IF junk
    THEN [k \in 1..(2 * n) |-> IF k % 2 = 1 THEN ValidPost(idAt((k + 1) \div 2))
                                ELSE JunkPost(k \div 2)]
    ELSE [k \in 1..n |-> ValidPost(idAt(k))]

\* blog.js 505-509: does the post match the search query?
Includes(content, query) ==
    \/ query = "text"
    \/ query = "even" /\ content = "text even"
Queries == {"text", "even", "zzz"}
SearchPosts(posts, query) ==
    SelectSeq(posts, LAMBDA post : Includes(post.idea, query))

\* blog.js 290-296: the pagination arithmetic of renderPosts.
TotalPages(posts) == Ceil(Len(posts), POSTS_PER_PAGE)
CurrentPage(posts, page) == Min(page, TotalPages(posts))
PostsToDisplay_overlap(posts, cp) ==
    Slice(posts, (cp - 1) * POSTS_PER_PAGE - (IF cp > 1 THEN 1 ELSE 0),
          (cp - 1) * POSTS_PER_PAGE + POSTS_PER_PAGE)
PostsToDisplay(posts, cp) ==
    Slice(posts, (cp - 1) * POSTS_PER_PAGE, (cp - 1) * POSTS_PER_PAGE + POSTS_PER_PAGE)

\* blog.js 318-372: the links renderPagination writes, each with its
\* data-page target: Prev, the link to page 1 before the numbered window,
\* the numbered window in the order written, the link to the last page
\* after it, and Next.  A disabled Prev or Next is a span, not a link.
NoLinks == [prev |-> {}, first |-> {}, window |-> <<>>, last |-> {}, next |-> {}]
PaginationLinks_nextAlways(cp, tp) ==
    LET maxPageButtons == 5
        startPage0 == Max(1, cp - (maxPageButtons \div 2))
        endPage == Min(tp, startPage0 + maxPageButtons - 1)
        startPage == IF endPage - startPage0 < maxPageButtons - 1
                     THEN Max(1, endPage - maxPageButtons + 1) ELSE startPage0
    IN [prev   |-> IF cp > 1 THEN {cp - 1} ELSE {},
        first  |-> IF startPage > 1 THEN {1} ELSE {},
        window |-> [i \in 1..(endPage - startPage + 1) |-> startPage + i - 1],
        last   |-> IF endPage < tp THEN {tp} ELSE {},
        next   |-> {cp + 1}]
PaginationLinks(cp, tp) ==
    LET maxPageButtons == 5
        startPage0 == Max(1, cp - (maxPageButtons \div 2))
        endPage == Min(tp, startPage0 + maxPageButtons - 1)
        startPage == IF endPage - startPage0 < maxPageButtons - 1
                     THEN Max(1, endPage - maxPageButtons + 1) ELSE startPage0
    IN [prev   |-> IF cp > 1 THEN {cp - 1} ELSE {},
        first  |-> IF startPage > 1 THEN {1} ELSE {},
        window |-> [i \in 1..(endPage - startPage + 1) |-> startPage + i - 1],
        last   |-> IF endPage < tp THEN {tp} ELSE {},
        next   |-> IF cp < tp THEN {cp + 1} ELSE {}]

\* blog.js 378: querySelectorAll('a[data-page]'), the targets of all links.
LinkTargets(links) ==
    links.prev \cup links.first \cup {links.window[i] : i \in 1..Len(links.window)}
               \cup links.last \cup links.next

\* blog.js 415-430: parseInt of a stored number, and the rotation arithmetic
\* (NaN propagates through + and %, and x % 0 is NaN).
\* localStorage.getItem: null for a missing key, else the stored value.
Absent == <<>>
Stored(v) == <<v>>
ParseStored(v) == IF v = Absent THEN 0 ELSE v[1]
RotMod(a, n) == IF a = NaN \/ n = 0 THEN NaN ELSE a % n
RotAdd(a, b) == IF a = NaN THEN NaN ELSE a + b

\* The page as loaded: module state of blog.js 20-22 and the untouched DOM.
BlogPageState ==
    /\ currentPage = 1
    /\ totalPages = 1
    /\ allValidPosts = <<>>
    /\ lastPosts = <<>>
    /\ lastPage = 0
    /\ grid = <<>>
    /\ gridVisible = FALSE
    /\ loadingVisible = TRUE
    /\ noPostsVisible = FALSE
    /\ paginationVisible = FALSE
    /\ pageLinks = NoLinks
    /\ errorVisible = FALSE
    /\ errorText = ""
    /\ latestPosts = <<>>
    /\ searches = {}
    /\ searchCount = 0
    /\ searchResult = <<>>
    /\ clicks = 0
    /\ b_requests = 0
    /\ b_reply = "none"
    /\ allPosts = <<>>
    /\ b_outcome = "none"
    /\ initRendered = FALSE
    /\ initEscaped = FALSE

BlogInitState ==
    /\ BlogPageState
    /\ isBlogPage = TRUE
    /\ blogLoads = 0
    /\ b_pc = "idle"
    /\ blog_rotation_index = Absent
    /\ blog_last_rotation = Absent

\* blog.js 265-313 with renderPagination (318-387): renderPosts(posts, page).
RenderPosts(posts, page) ==
    /\ loadingVisible' = FALSE
    /\ lastPosts' = posts
    /\ lastPage' = page
    /\ IF Len(posts) = 0
       THEN /\ noPostsVisible' = TRUE
            /\ paginationVisible' = FALSE
            /\ UNCHANGED <<allValidPosts, totalPages, currentPage, grid, gridVisible,
                           pageLinks>>
       ELSE /\ allValidPosts' = posts
            /\ totalPages' = TotalPages(posts)
            /\ currentPage' = CurrentPage(posts, page)
            /\ grid' = PostsToDisplay(posts, currentPage')
            /\ gridVisible' = TRUE
            /\ paginationVisible' = (totalPages' > 1)
            /\ pageLinks' = IF totalPages' > 1
                            THEN PaginationLinks(currentPage', totalPages')
                            ELSE pageLinks
            /\ UNCHANGED noPostsVisible

\* blog.js 392-405: showError.
ShowError(message) ==
    /\ loadingVisible' = FALSE
    /\ errorText' = message
    /\ errorVisible' = TRUE

ErrorMessage == "Unable to load blog posts. Please try again later."

\* blog.js 410-458: renderHomepagePosts; the cards are built from
\* posts[(rotationIndex + i) % posts.length], and building a card from
\* undefined throws before #latest-posts is written.
HomepageIndex(posts, t) ==
    LET rotationIndex == ParseStored(blog_rotation_index)
        lastRotation == ParseStored(blog_last_rotation)
    IN IF t - lastRotation > ROTATION_INTERVAL
       THEN RotMod(RotAdd(rotationIndex, 6), Len(posts)) ELSE rotationIndex
HomepageRotates(t) == t - ParseStored(blog_last_rotation) > ROTATION_INTERVAL
HomepageThrows(posts, t) == Len(posts) > 0 /\ HomepageIndex(posts, t) = NaN
HomepageDisplay(posts, t) ==
    [i \in 1..Min(6, Len(posts)) |->
        posts[((HomepageIndex(posts, t) + i - 1) % Len(posts)) + 1]]

\* A page load reaches BlogLoader.init (blog.js 520-529, 463-466): the post
\* fetch is issued.
BlogInit ==
    /\ b_pc \in {"idle", "done"}
    /\ searches = {}
    /\ blogLoads < budget.blogLoads
    /\ blogLoads' = blogLoads + 1
    /\ isBlogPage' \in BOOLEAN
    /\ b_pc' = "fetching"
    /\ currentPage' = 1 /\ totalPages' = 1 /\ allValidPosts' = <<>>
    /\ lastPosts' = <<>> /\ lastPage' = 0
    /\ grid' = <<>> /\ gridVisible' = FALSE /\ loadingVisible' = TRUE
    /\ noPostsVisible' = FALSE /\ paginationVisible' = FALSE /\ pageLinks' = NoLinks
    /\ errorVisible' = FALSE /\ errorText' = "" /\ latestPosts' = <<>>
    /\ searches' = {} /\ searchCount' = 0 /\ searchResult' = <<>> /\ clicks' = 0
    /\ b_requests' = 1
    /\ b_reply' = "none"
    /\ allPosts' = <<>>
    /\ b_outcome' = "none" /\ initRendered' = FALSE /\ initEscaped' = FALSE
    /\ UNCHANGED <<blogStorage, clockVars, notBlog>>

\* What the posts endpoint can answer (blog.js 185-204).
BlogReplyKinds == {"reject", "httpError", "badJson", "successFalse", "postsNotArray", "ok"}
SampleSizes == {0, 1, POSTS_PER_PAGE, POSTS_PER_PAGE + 1, MaxPosts}
BlogReplies ==
    [kind : BlogReplyKinds \ {"ok"}, posts : {<<>>}]
    \cup {[kind |-> "ok", posts |-> ApiPosts(n, n % 2 = 1, n % 2 = 1)] : n \in SampleSizes}

\* blog.js 186-199: fetchPosts throws unless the reply is OK, parses, has a
\* truthy success and an array of posts.
FetchPostsThrows_noSuccessCheck(r) == r.kind \notin {"ok", "successFalse"}
FetchPostsThrows(r) == r.kind # "ok"

\* BlogLoader.init after its await (blog.js 466-483).
BlogFetchSettles ==
    /\ b_pc = "fetching"
    /\ b_pc' = "done"
    /\ \E r \in BlogReplies :
        /\ b_reply' = r.kind
        /\ allPosts' = IF FetchPostsThrows(r) THEN <<>> ELSE r.posts
        /\ IF FetchPostsThrows(r)
           THEN /\ ShowError(ErrorMessage)
                /\ b_outcome' = "failed"
                /\ UNCHANGED <<initRendered, grid, gridVisible, noPostsVisible,
                               paginationVisible, pageLinks, latestPosts, blogPaging,
                               blogStorage>>
           ELSE LET validPosts == FilterPosts(r.posts) IN
                IF isBlogPage
                THEN /\ RenderPosts(validPosts, 1)
                     /\ b_outcome' = "rendered"
                     /\ initRendered' = TRUE
                     /\ UNCHANGED <<errorVisible, errorText, latestPosts, blogStorage>>
                ELSE /\ initRendered' = TRUE
                     /\ IF HomepageRotates(now)
                        THEN /\ blog_rotation_index' = Stored(HomepageIndex(validPosts, now))
                             /\ blog_last_rotation' = Stored(now)
                        ELSE UNCHANGED blogStorage
                     /\ IF HomepageThrows(validPosts, now)
                        THEN /\ ShowError(ErrorMessage)
                             /\ b_outcome' = "failed"
                             /\ UNCHANGED latestPosts
                        ELSE /\ latestPosts' = HomepageDisplay(validPosts, now)
                             /\ b_outcome' = "rendered"
                             /\ UNCHANGED <<loadingVisible, errorVisible, errorText>>
                     /\ UNCHANGED <<grid, gridVisible, noPostsVisible, paginationVisible,
                                    pageLinks, blogPaging>>
    /\ UNCHANGED <<isBlogPage, blogLoads, b_requests, initEscaped, searches,
                   searchCount, searchResult, clicks, clockVars, notBlog>>

\* A click on a page link (blog.js 379-386).
PageClick ==
    /\ isBlogPage
    /\ paginationVisible
    /\ clicks < budget.clicks
    /\ clicks' = clicks + 1
    /\ \E page \in LinkTargets(pageLinks) : RenderPosts(allValidPosts, page)
    /\ UNCHANGED <<errorVisible, errorText, latestPosts, blogStorage, isBlogPage,
                   blogLoads, b_pc, b_requests, b_reply, allPosts, b_outcome,
                   initRendered, initEscaped, searches, searchCount, searchResult,
                   clockVars, notBlog>>

\* The search form is submitted with a non-empty query (blog.js 494-501).
SearchSubmit ==
    /\ isBlogPage
    /\ b_pc # "idle"
    /\ searchCount < budget.searches
    /\ searchCount' = searchCount + 1
    /\ searchResult' = Append(searchResult, [state |-> "pending", posts |-> <<>>])
    /\ \E q \in Queries :
        searches' = searches \cup {[id |-> searchCount + 1, query |-> q, sent |-> 1]}
    /\ UNCHANGED <<blogDom, blogPaging, blogStorage, isBlogPage, blogLoads, b_pc,
                   b_requests, b_reply, allPosts, b_outcome, initRendered, initEscaped,
                   clicks, clockVars, notBlog>>

\* The fetch of a search settles (blog.js 501-514); a failure is only logged.
SearchSettles ==
    /\ \E sr \in searches, r \in BlogReplies :
        /\ searches' = searches \ {sr}
        /\ IF FetchPostsThrows(r)
           THEN /\ searchResult' =
                     [searchResult EXCEPT ![sr.id] = [state |-> "failed", posts |-> <<>>]]
                /\ UNCHANGED <<blogDom, blogPaging>>
           ELSE /\ searchResult' =
                     [searchResult EXCEPT ![sr.id] =
                         [state |-> "rendered",
                          posts |-> SearchPosts(FilterPosts(r.posts), sr.query)]]
                /\ RenderPosts(SearchPosts(FilterPosts(r.posts), sr.query), 1)
                /\ UNCHANGED <<errorVisible, errorText, latestPosts>>
    /\ UNCHANGED <<blogStorage, isBlogPage, blogLoads, b_pc, b_requests, b_reply,
                   allPosts, b_outcome, initRendered, initEscaped, searchCount, clicks,
                   clockVars, notBlog>>

\* renderPosts called on its own with any post list and page number.
RenderPostsCall ==
    /\ budget.renders > 0
    /\ \E n \in 0..MaxPosts, rev \in BOOLEAN, page \in 1..MaxPageArg :
        RenderPosts(FilterPosts(ApiPosts(n, TRUE, rev)), page)
    /\ UNCHANGED <<errorVisible, errorText, latestPosts, blogStorage, blogCtl,
                   clockVars, notBlog>>

\* The lengths of the lists rendered then: none, and for each number of
\* pages a list that fills the last page and one that puts one post on it.
LongListLengths ==
    {0} \cup {POSTS_PER_PAGE * k - j : k \in 1..MaxLongPages, j \in {0, POSTS_PER_PAGE - 1}}

\* renderPosts called on its own with a list long enough for the numbered
\* window to leave out pages at both ends.
RenderLongListCall ==
    /\ budget.longRenders > 0
    /\ \E n \in LongListLengths, page \in 1..MaxPageArg :
        RenderPosts(FilterPosts(ApiPosts(n, FALSE, FALSE)), page)
    /\ UNCHANGED <<errorVisible, errorText, latestPosts, blogStorage, blogCtl,
                   clockVars, notBlog>>

(***************************************************************************)
(* Chat widget (part_000 6-452).  The elements the widget looks up by id   *)
(* (#chat-input, #chat-send, #chat-messages, #connection-status) are taken *)
(* to exist.  A disabled button or input delivers no click or key event.   *)
(***************************************************************************)
MaxChatSends == 3    \* chat messages sent per page load
MaxMessages == 52    \* addMessage calls of the longest conversation

maxReconnectAttempts == 3
HistoryKept == 50

SessionIds == {"s0", "s1"}
ChatTexts == {"hi", "  "}
SuggestionText == "What are his latest projects?"

\* part_000 175: chatInput.value.trim().
TrimInput(v) == IF v = "  " THEN "" ELSE v

Msg(sender, kind, suggestions) ==
    [sender |-> sender, kind |-> kind, suggestions |-> suggestions]

\* part_000 288-294: addMessage pushes onto messageHistory.
AddMessage(history, msg) == Append(history, msg)

\* part_000 410-419: saveChatHistory stores the last 50 entries under the
\* current session id.
SaveChatHistory_first(store, sid, history) ==
    [store EXCEPT ![sid] = Slice(history, 0, HistoryKept)]
SaveChatHistory(store, sid, history) ==
    [store EXCEPT ![sid] = Slice(history, 0 - HistoryKept, Len(history))]

\* part_000 133-138: hideBotTyping removes one #typing-indicator, if any.
HideBotTyping(n) == IF n > 0 THEN n - 1 ELSE 0

\* What the chat endpoint can answer (part_000 191-221).
ChatReplyKinds == {"reject", "httpError", "badJson", "successFalse", "success"}
\* Only a successful reply's sessionId and suggestions are read (212-219).
ChatReplies ==
    {r \in [kind : ChatReplyKinds, sessionId : SessionIds, suggestions : BOOLEAN] :
        r.kind # "success" => (r.sessionId = "s0" /\ ~r.suggestions)}

\* part_000 191-221: does the reply end in the catch block?
ChatFails(r) == r.kind # "success"

\* part_000 203: replies for which fetch resolved pass the first
\* hideBotTyping before anything throws.
PassesFirstHide(r) == r.kind # "reject"

\* part_000 228-232: the messages the catch block adds.
CatchMessages_none(history) == history
CatchMessages(history) == AddMessage(history, Msg("bot", "error", FALSE))

\* part_000 233-236: the disabled flag the finally block leaves.
FinallyDisabled == FALSE

\* part_000 171-237: is a failed request sent again by sendMessage?
ChatRetries_once(req) == req.sent < 2
ChatRetries(req) == FALSE

\* Constructor and init (part_000 7-29): nothing is stored under the fresh
\* session id, so the welcome timer is armed and the indicator shows online.
ChatInitState ==
    /\ chatInputValue = ""
    /\ inputDisabled = FALSE
    /\ sendDisabled = FALSE
    /\ typingIndicators = 0
    /\ messageHistory = <<>>
    /\ sessionId = "s0"
    /\ chat_history = [sid \in SessionIds |-> <<>>]
    /\ connectionStatus = "online"
    /\ reconnectAttempts = 0
    /\ statusTimers = 0
    /\ welcomePending = TRUE
    /\ chatInFlight = {}
    /\ chatSends = 0
    /\ chatSettled = 0
    /\ lastChatOutcome = "none"
    /\ chatEscaped = FALSE

\* part_000 171-201: sendMessage up to its await, with v in #chat-input.
SendMessage(v) ==
    LET message == TrimInput(v) IN
    IF message = ""
    THEN /\ chatInputValue' = v
         /\ UNCHANGED <<inputDisabled, sendDisabled, typingIndicators, messageHistory,
                        chat_history, connectionStatus, chatInFlight, chatSends>>
    ELSE /\ chatSends < budget.chat
         /\ chatInputValue' = ""
         /\ inputDisabled' = TRUE
         /\ sendDisabled' = TRUE
         /\ messageHistory' = AddMessage(messageHistory, Msg("user", "text", FALSE))
         /\ chat_history' = SaveChatHistory(chat_history, sessionId, messageHistory')
         /\ typingIndicators' = typingIndicators + 1
         /\ connectionStatus' = "connecting"
         /\ chatInFlight' = chatInFlight \cup {[id |-> chatSends + 1, sent |-> 1]}
         /\ chatSends' = chatSends + 1

chatIdleFrame == <<sessionId, reconnectAttempts, statusTimers, welcomePending,
                   chatSettled, lastChatOutcome, chatEscaped>>

\* The user edits the input (part_000 49-61).
UserTypes ==
    /\ budget.chat > 0
    /\ ~inputDisabled
    /\ \E v \in ChatTexts : chatInputValue' = v
    /\ chatInputValue' # chatInputValue
    /\ UNCHANGED <<inputDisabled, sendDisabled, typingIndicators, messageHistory,
                   chat_history, connectionStatus, chatInFlight, chatSends,
                   chatIdleFrame, notChat>>

\* part_000 45-47: click on #chat-send.
ClickSend ==
    /\ ~sendDisabled
    /\ TrimInput(chatInputValue) # ""
    /\ SendMessage(chatInputValue)
    /\ UNCHANGED <<chatIdleFrame, notChat>>

\* part_000 50-53: Enter in #chat-input.
PressEnter ==
    /\ ~inputDisabled
    /\ TrimInput(chatInputValue) # ""
    /\ SendMessage(chatInputValue)
    /\ UNCHANGED <<chatIdleFrame, notChat>>

\* part_000 316-329: click on a suggestion button of a bot message.
SelectSuggestion ==
    /\ \E i \in 1..Len(messageHistory) : messageHistory[i].suggestions
    /\ SendMessage(SuggestionText)
    /\ UNCHANGED <<chatIdleFrame, notChat>>

\* part_000 434-440.
SendMessageProgrammatically ==
    /\ \E m \in ChatTexts :
        /\ SendMessage(m)
        /\ chatInputValue' # chatInputValue \/ TrimInput(m) # ""
    /\ UNCHANGED <<chatIdleFrame, notChat>>

\* part_000 203-236: the request settles with reply r.
ChatSettles ==
    /\ \E req \in chatInFlight, r \in ChatReplies :
        /\ chatSettled' = chatSettled + 1
        /\ lastChatOutcome' = r.kind
        /\ chatEscaped' = FALSE
        /\ inputDisabled' = FinallyDisabled
        /\ sendDisabled' = FinallyDisabled
        /\ IF ChatFails(r)
           THEN /\ typingIndicators' =
                     HideBotTyping(IF PassesFirstHide(r)
                                   THEN HideBotTyping(typingIndicators)
                                   ELSE typingIndicators)
                /\ reconnectAttempts' = reconnectAttempts + 1
                /\ IF reconnectAttempts' >= maxReconnectAttempts
                   THEN /\ connectionStatus' = "offline"
                        /\ UNCHANGED statusTimers
                   ELSE /\ connectionStatus' = "connecting"
                        /\ statusTimers' = statusTimers + 1
                /\ messageHistory' = CatchMessages(messageHistory)
                /\ chat_history' = SaveChatHistory(chat_history, sessionId, messageHistory')
                /\ chatInFlight' = IF ChatRetries(req)
                                   THEN (chatInFlight \ {req})
                                        \cup {[req EXCEPT !.sent = @ + 1]}
                                   ELSE chatInFlight \ {req}
                /\ UNCHANGED sessionId
           ELSE /\ typingIndicators' = HideBotTyping(typingIndicators)
                /\ sessionId' = r.sessionId
                /\ messageHistory' =
                     AddMessage(messageHistory, Msg("bot", "text", r.suggestions))
                /\ chat_history' = SaveChatHistory(chat_history, sessionId', messageHistory')
                /\ connectionStatus' = "online"
                /\ reconnectAttempts' = 0
                /\ chatInFlight' = chatInFlight \ {req}
                /\ UNCHANGED statusTimers
    /\ UNCHANGED <<chatInputValue, welcomePending, chatSends, notChat>>

\* part_000 377-393: the welcome timer fires.
WelcomeFires ==
    /\ budget.chat > 0
    /\ welcomePending
    /\ welcomePending' = FALSE
    /\ messageHistory' = AddMessage(messageHistory, Msg("bot", "welcome", TRUE))
    /\ chat_history' = SaveChatHistory(chat_history, sessionId, messageHistory')
    /\ UNCHANGED <<chatInputValue, inputDisabled, sendDisabled, typingIndicators,
                   sessionId, connectionStatus, reconnectAttempts, statusTimers,
                   chatInFlight, chatSends, chatSettled, lastChatOutcome, chatEscaped,
                   notChat>>

\* part_000 247-249: a 2 s timer of handleConnectionError fires.
StatusTimerFires ==
    /\ statusTimers > 0
    /\ statusTimers' = statusTimers - 1
    /\ connectionStatus' = "online"
    /\ UNCHANGED <<chatInputValue, inputDisabled, sendDisabled, typingIndicators,
                   messageHistory, sessionId, chat_history, reconnectAttempts,
                   welcomePending, chatInFlight, chatSends, chatSettled,
                   lastChatOutcome, chatEscaped, notChat>>

\* part_000 65-71, 428-431: the page becomes visible again.
PageVisible ==
    /\ connectionStatus # "online"
    /\ connectionStatus' = "online"
    /\ UNCHANGED <<chatInputValue, inputDisabled, sendDisabled, typingIndicators,
                   messageHistory, sessionId, chat_history, reconnectAttempts,
                   statusTimers, welcomePending, chatInFlight, chatSends, chatSettled,
                   lastChatOutcome, chatEscaped, notChat>>

\* The next message of a conversation in which user and assistant alternate.
NextMessage(history) ==
    IF Len(history) % 2 = 0 THEN Msg("user", "text", FALSE) ELSE Msg("bot", "text", FALSE)

\* part_000 253-297: addMessage called with the next message of a long
\* conversation; a successful reply sets the session id just before its
\* addMessage call (212-213).
AddMessageCall ==
    /\ Len(messageHistory) < budget.messages
    /\ LET msg == NextMessage(messageHistory) IN
       /\ sessionId' \in (IF msg.sender = "bot" THEN SessionIds ELSE {sessionId})
       /\ messageHistory' = AddMessage(messageHistory, msg)
       /\ chat_history' = SaveChatHistory(chat_history, sessionId', messageHistory')
    /\ UNCHANGED <<chatInputValue, inputDisabled, sendDisabled, typingIndicators,
                   connectionStatus, reconnectAttempts, statusTimers, welcomePending,
                   chatInFlight, chatSends, chatSettled, lastChatOutcome, chatEscaped,
                   notChat>>

(***************************************************************************)
(* Analytics tracker (analytics.js 6-251).  Events are identified by the   *)
(* order in which track created them.                                      *)
(***************************************************************************)
MaxEvents == 3       \* analytics events tracked per page load
MaxSendsPerEvent == 2  \* fetches of one event that the network lets fail or succeed

DefaultApiUrl == "https://api.vikasyadav.live"

AnalyticsInitState ==
    /\ apiUrl = ""
    /\ isOnline = TRUE
    /\ queue = <<>>
    /\ eventsInFlight = {}
    /\ eventsDelivered = {}
    /\ sendsOf = <<>>
    /\ lastBatch = <<>>
    /\ nextEvent = 1
    /\ autoTrack = FALSE
    /\ maxScrollDepth = 0
    /\ scrollTracked = <<>>

\* The tracker's fields as one value, so that handlers can be composed.
Tracker ==
    [apiUrl |-> apiUrl, isOnline |-> isOnline, queue |-> queue,
     inFlight |-> eventsInFlight, sendsOf |-> sendsOf, batch |-> <<>>,
     nextEvent |-> nextEvent]

SetTracker(t) ==
    /\ apiUrl' = t.apiUrl
    /\ isOnline' = t.isOnline
    /\ queue' = t.queue
    /\ eventsInFlight' = t.inFlight
    /\ sendsOf' = t.sendsOf
    /\ lastBatch' = t.batch
    /\ nextEvent' = t.nextEvent

Range(seq) == {seq[i] : i \in 1..Len(seq)}

\* analytics.js 159-168: sendEvent starts a fetch for the event.
SendEvent(t, e) ==
    [t EXCEPT !.inFlight = @ \cup {e}, !.sendsOf[e] = @ + 1]

\* analytics.js 137-157: track.
Track_ignoresOnline(t) ==
    LET e == t.nextEvent
        t1 == [t EXCEPT !.nextEvent = e + 1, !.sendsOf = Append(@, 0)]
    IN IF t1.apiUrl # ""
       THEN SendEvent(t1, e)
       ELSE [t1 EXCEPT !.queue = Append(@, e)]
Track(t) ==
    LET e == t.nextEvent
        t1 == [t EXCEPT !.nextEvent = e + 1, !.sendsOf = Append(@, 0)]
    IN IF t1.isOnline /\ t1.apiUrl # ""
       THEN SendEvent(t1, e)
       ELSE [t1 EXCEPT !.queue = Append(@, e)]

\* analytics.js 183: events.forEach(event => this.sendEvent(event)).
RECURSIVE SendAll(_, _)
SendAll(t, events) ==
    IF events = <<>> THEN t
    ELSE SendAll([SendEvent(t, Head(events)) EXCEPT !.batch = Append(@, Head(events))],
                 Tail(events))

\* analytics.js 175-184: processQueue.
ProcessQueue(t) ==
    IF ~t.isOnline \/ t.apiUrl = "" \/ Len(t.queue) = 0
    THEN t
    ELSE SendAll([t EXCEPT !.queue = <<>>, !.batch = <<>>], t.queue)

\* analytics.js 169-172: the catch block of sendEvent puts the event back.
Requeue_dropped(q, e) == q
Requeue(q, e) == Append(q, e)

\* Can k more events be tracked within the budget?
CanTrack(k) == nextEvent + k - 1 <= budget.events

\* analytics.js 18-30: init(config), with autoTrack tracking the page view.
AnalyticsInit ==
    /\ budget.events > 0
    /\ apiUrl = ""
    /\ \E auto \in BOOLEAN :
        /\ auto => CanTrack(1)
        /\ autoTrack' = auto
        /\ LET t0 == [Tracker EXCEPT !.apiUrl = DefaultApiUrl]
               t1 == IF auto THEN Track(t0) ELSE t0
           IN SetTracker(ProcessQueue(t1))
    /\ UNCHANGED <<eventsDelivered, maxScrollDepth, scrollTracked, notAnalytics, ocrVars>>

\* Any caller of Analytics.track (analytics.js 137).
TrackEvent ==
    /\ CanTrack(1)
    /\ SetTracker(Track(Tracker))
    /\ UNCHANGED <<eventsDelivered, scrollVars, notAnalytics, ocrVars>>

\* analytics.js 160-172: the fetch of an event settles.
SendSettles ==
    /\ \E e \in eventsInFlight, resolved \in BOOLEAN :
        /\ resolved \/ sendsOf[e] < MaxSendsPerEvent
        /\ eventsInFlight' = eventsInFlight \ {e}
        /\ IF resolved
           THEN /\ eventsDelivered' = eventsDelivered \cup {e}
                /\ UNCHANGED queue
           ELSE /\ queue' = Requeue(queue, e)
                /\ UNCHANGED eventsDelivered
    /\ lastBatch' = <<>>
    /\ UNCHANGED <<apiUrl, isOnline, sendsOf, nextEvent, scrollVars, notAnalytics, ocrVars>>

\* analytics.js 38-41: the browser's online event.
GoOnline ==
    /\ budget.events > 0
    /\ ~isOnline
    /\ SetTracker(ProcessQueue([Tracker EXCEPT !.isOnline = TRUE]))
    /\ UNCHANGED <<eventsDelivered, scrollVars, notAnalytics, ocrVars>>

\* analytics.js 43-45: the browser's offline event.
GoOffline ==
    /\ budget.events > 0
    /\ isOnline
    /\ isOnline' = FALSE
    /\ lastBatch' = <<>>
    /\ UNCHANGED <<apiUrl, queue, eventsInFlight, eventsDelivered, sendsOf, nextEvent,
                   scrollVars, notAnalytics, ocrVars>>

\* analytics.js 106-108: the scroll positions the throttled listener sees, as
\* Math.round((scrollTop / docHeight) * 100).
ScrollPercents == {0, 10, 25, 30, 50, 60, 75, 90, 100}

\* analytics.js 114-122: the milestone tests, with the value maxScrollDepth
\* has when they run; 0 stands for no milestone.
Milestone(scrollPercent, maxAtTest) ==
    IF scrollPercent >= 25 /\ maxAtTest < 25 THEN 25
    ELSE IF scrollPercent >= 50 /\ maxAtTest < 50 THEN 50
    ELSE IF scrollPercent >= 75 /\ maxAtTest < 75 THEN 75
    ELSE IF scrollPercent >= 90 /\ maxAtTest < 90 THEN 90
    ELSE 0

\* analytics.js 105-124: the scroll listener that startAutoTracking installs.
\* maxScrollDepth is assigned (111) before the milestone tests read it.
Scroll ==
    /\ budget.scrolls > 0
    /\ autoTrack
    /\ \E scrollPercent \in ScrollPercents :
        /\ scrollPercent > maxScrollDepth
        /\ maxScrollDepth' = scrollPercent
        /\ LET depth == Milestone(scrollPercent, maxScrollDepth') IN
           IF depth # 0
           THEN /\ CanTrack(1)
                /\ scrollTracked' = Append(scrollTracked, depth)
                /\ SetTracker(Track(Tracker))
                /\ UNCHANGED eventsDelivered
           ELSE UNCHANGED <<scrollTracked, analyticsVars>>
    /\ UNCHANGED <<autoTrack, notAnalytics, ocrVars>>

(***************************************************************************)
(* OCR tool (app.js 489-956).  The forms, buttons and sections the tool    *)
(* looks up are taken to exist, and window.Analytics is the tracker above. *)
(***************************************************************************)
MaxOcr == 2          \* OCR requests per page load
MaxHistoryAdds == 12 \* addToHistory calls explored on their own

HistoryLimit == 10

OcrInitState ==
    /\ ocrInFlight = {}
    /\ ocrCount = 0
    /\ ocrButtonsDisabled = FALSE
    /\ ocrErrorVisible = FALSE
    /\ ocrResultsVisible = FALSE
    /\ ocrReply = "none"
    /\ processingHistory = <<>>
    /\ ocr_processing_history = <<>>

\* app.js 582-594: validateFile.
FileKinds == {"missing", "tooBig", "badType", "ok"}
ValidateFile(file) == file = "ok"

\* What the OCR endpoints can answer (app.js 632-644, 669-687).
OcrReplyKinds == {"reject", "badJson", "successFalse", "success", "successNoText"}

\* app.js 763-770: the history item of a result; id stands for Date.now().
HistoryItem(id, from) ==
    [id |-> id, filename |-> IF from = "file" THEN "scan.png" ELSE "URL Processing"]

\* app.js 762-773: addToHistory puts the item first and keeps 10.
AddToHistory_append(history, item) == Slice(history \o <<item>>, 0, HistoryLimit)
AddToHistory(history, item) == Slice(<<item>> \o history, 0, HistoryLimit)

\* app.js 608-656, 658-695: is a failed request sent again?
OcrRetries(req) == FALSE

\* app.js 608-635: the file form is submitted.
OcrFileUpload ==
    /\ budget.ocr > 0
    /\ ~ocrButtonsDisabled
    /\ \E file \in FileKinds \ {"missing"} :
        IF ~ValidateFile(file)
        THEN /\ ~ocrErrorVisible
             /\ ocrErrorVisible' = TRUE
             /\ UNCHANGED <<ocrInFlight, ocrCount, ocrButtonsDisabled, ocrResultsVisible,
                            ocrReply, analyticsVars>>
        ELSE /\ ocrCount < budget.ocr
             /\ CanTrack(1)
             /\ ocrButtonsDisabled' = TRUE
             /\ ocrResultsVisible' = FALSE
             /\ ocrErrorVisible' = FALSE
             /\ SetTracker(Track(Tracker))
             /\ UNCHANGED eventsDelivered
             /\ ocrInFlight' = ocrInFlight \cup
                    {[id |-> ocrCount + 1, kind |-> "file", file |-> file, sent |-> 1]}
             /\ ocrCount' = ocrCount + 1
             /\ UNCHANGED ocrReply
    /\ UNCHANGED <<processingHistory, ocr_processing_history, notOcr>>

\* app.js 658-678: the URL form is submitted with a non-empty URL.
OcrUrlSubmit ==
    /\ ~ocrButtonsDisabled
    /\ ocrCount < budget.ocr
    /\ ocrButtonsDisabled' = TRUE
    /\ ocrResultsVisible' = FALSE
    /\ ocrErrorVisible' = FALSE
    /\ ocrInFlight' = ocrInFlight \cup
           {[id |-> ocrCount + 1, kind |-> "url", file |-> "none", sent |-> 1]}
    /\ ocrCount' = ocrCount + 1
    /\ UNCHANGED <<ocrReply, processingHistory, ocr_processing_history, analyticsVars, notOcr>>

\* app.js 637-655, 680-694: the request settles.
OcrSettles ==
    /\ \E req \in ocrInFlight, kind \in OcrReplyKinds :
        LET caught == kind \in {"reject", "badJson", "successNoText"} IN
        /\ (caught /\ req.kind = "file") => CanTrack(1)
        /\ ocrReply' = kind
        /\ ocrButtonsDisabled' = FALSE
        /\ ocrResultsVisible' = (ocrResultsVisible \/ kind \in {"success", "successNoText"})
        /\ ocrErrorVisible' = (ocrErrorVisible \/ kind # "success")
        /\ IF kind = "success"
           THEN /\ processingHistory' =
                     AddToHistory(processingHistory, HistoryItem(req.id, req.kind))
                /\ ocr_processing_history' = processingHistory'
           ELSE UNCHANGED <<processingHistory, ocr_processing_history>>
        /\ IF caught /\ req.kind = "file"
           THEN SetTracker(Track(Tracker)) /\ UNCHANGED eventsDelivered
           ELSE UNCHANGED analyticsVars
        /\ ocrInFlight' = IF kind # "success" /\ OcrRetries(req)
                          THEN (ocrInFlight \ {req}) \cup {[req EXCEPT !.sent = @ + 1]}
                          ELSE ocrInFlight \ {req}
    /\ UNCHANGED <<ocrCount, notOcr>>

\* app.js 762-777: addToHistory called with the result of one more request.
AddToHistoryCall ==
    /\ ocrCount < budget.historyAdds
    /\ ocrCount' = ocrCount + 1
    /\ \E from \in {"file", "url"} :
        processingHistory' = AddToHistory(processingHistory, HistoryItem(ocrCount', from))
    /\ ocr_processing_history' = processingHistory'
    /\ UNCHANGED <<ocrInFlight, ocrButtonsDisabled, ocrErrorVisible, ocrResultsVisible,
                   ocrReply, analyticsVars, notOcr>>

(***************************************************************************)
(* VikasYadavApp: token validation at page load (app.js 6-49).  The token  *)
(* itself is written by the login page, which is not part of these files.  *)
(***************************************************************************)
MaxAppLoads == 4     \* page loads that construct VikasYadavApp

AppInitState ==
    /\ auth_token = Absent
    /\ isAuthenticated = FALSE
    /\ currentUser = "null"
    /\ appLoads = 0
    /\ authPending = FALSE
    /\ authRequests = 0
    /\ authReply = "none"

\* Values found under auth_token; the empty string is falsy.
Tokens == {"", "token1", "token2"}

\* data.user of an OK reply with an object body (app.js 40).
Users == {Undefined, "vikas"}

\* What /api/auth/me can answer (app.js 31-48): the fetch rejects, the status
\* is not OK, the status is OK and the body is not JSON, is the JSON value
\* null, or is an object.
AuthReplyKinds == {"reject", "httpError", "okBadJson", "okNull", "ok"}

\* app.js 29-48: validateToken after its awaits.  isAuthenticated is set
\* after the body was parsed and before data.user is read, which throws for
\* a null body.
ValidateOutcome_beforeBody(kind) ==
    [authenticated |-> kind \in {"okBadJson", "okNull", "ok"}, removes |-> kind # "ok"]
ValidateOutcome(kind) ==
    [authenticated |-> kind \in {"okNull", "ok"}, removes |-> kind # "ok"]

\* The login page (also one open in another tab) stores a token, or the user
\* logs out.
TokenChanges ==
    /\ budget.authLoads > 0
    /\ \E v \in {Absent} \cup {Stored(t) : t \in Tokens} :
        /\ v # auth_token
        /\ auth_token' = v
    /\ UNCHANGED <<isAuthenticated, currentUser, appLoads, authPending, authRequests,
                   authReply, notApp>>

\* A page load: new VikasYadavApp() (app.js 7-27), up to the await of
\* validateToken (31).
AppInit ==
    /\ appLoads < budget.authLoads
    /\ appLoads' = appLoads + 1
    /\ isAuthenticated' = FALSE
    /\ currentUser' = "null"
    /\ authReply' = "none"
    /\ IF auth_token # Absent /\ auth_token[1] # ""
       THEN authPending' = TRUE /\ authRequests' = 1
       ELSE authPending' = FALSE /\ authRequests' = 0
    /\ UNCHANGED <<auth_token, notApp>>

\* app.js 37-48: the validation request settles.
AuthSettles ==
    /\ authPending
    /\ authPending' = FALSE
    /\ \E kind \in AuthReplyKinds, user \in Users :
        /\ authReply' = kind
        /\ isAuthenticated' = (isAuthenticated \/ ValidateOutcome(kind).authenticated)
        /\ currentUser' = IF kind = "ok" THEN user ELSE currentUser
        /\ auth_token' = IF ValidateOutcome(kind).removes THEN Absent ELSE auth_token
    /\ UNCHANGED <<appLoads, authRequests, notApp>>

(***************************************************************************)
(* Specifications: one per widget, and one for the page as a whole.        *)
(***************************************************************************)
InitWith(b) ==
    /\ now = StartTime
    /\ ticks = 0
    /\ budget = b
    /\ ScholarInitState
    /\ BlogInitState
    /\ ChatInitState
    /\ AnalyticsInitState
    /\ OcrInitState
    /\ AppInitState

InitScholar == InitWith([NoBudget EXCEPT !.loads = MaxLoads, !.ticks = MaxTicks])
NextScholar == Tick \/ ScholarInit \/ FetchSettles \/ BackoffElapsed
SpecScholar == InitScholar /\ [][NextScholar]_vars
FairScholar == SpecScholar /\ WF_vars(FetchSettles) /\ WF_vars(BackoffElapsed)

InitBlog ==
    InitWith([NoBudget EXCEPT !.blogLoads = MaxBlogLoads, !.ticks = 1,
                              !.searches = MaxSearches, !.clicks = MaxClicks])
NextBlog == Tick \/ BlogInit \/ BlogFetchSettles \/ PageClick \/ SearchSubmit \/ SearchSettles
SpecBlog == InitBlog /\ [][NextBlog]_vars

InitRenderPosts == InitWith([NoBudget EXCEPT !.renders = 1])
NextRenderPosts == RenderPostsCall
SpecRenderPosts == InitRenderPosts /\ [][NextRenderPosts]_vars

InitPagination ==
    InitWith([NoBudget EXCEPT !.longRenders = 1, !.clicks = MaxPageClicks])
NextPagination == RenderLongListCall \/ PageClick
SpecPagination == InitPagination /\ [][NextPagination]_vars

InitChat == InitWith([NoBudget EXCEPT !.chat = MaxChatSends])
NextChat ==
    \/ UserTypes \/ ClickSend \/ PressEnter \/ SelectSuggestion
    \/ SendMessageProgrammatically \/ ChatSettles \/ WelcomeFires
    \/ StatusTimerFires \/ PageVisible
SpecChat == InitChat /\ [][NextChat]_vars

InitChatHistory == InitWith([NoBudget EXCEPT !.messages = MaxMessages])
NextChatHistory == AddMessageCall
SpecChatHistory == InitChatHistory /\ [][NextChatHistory]_vars

InitOcrHistory == InitWith([NoBudget EXCEPT !.historyAdds = MaxHistoryAdds])
NextOcrHistory == AddToHistoryCall
SpecOcrHistory == InitOcrHistory /\ [][NextOcrHistory]_vars

InitApp == InitWith([NoBudget EXCEPT !.authLoads = MaxAppLoads])
NextApp == TokenChanges \/ AppInit \/ AuthSettles
SpecApp == InitApp /\ [][NextApp]_vars

NextAnalytics == AnalyticsInit \/ TrackEvent \/ SendSettles \/ GoOnline \/ GoOffline

InitAnalytics == InitWith([NoBudget EXCEPT !.events = MaxEvents])
SpecAnalytics == InitAnalytics /\ [][NextAnalytics]_vars

InitScroll == InitWith([NoBudget EXCEPT !.scrolls = 1, !.events = MaxEvents])
NextScroll == NextAnalytics \/ Scroll
SpecScroll == InitScroll /\ [][NextScroll]_vars
NextOcr == OcrFileUpload \/ OcrUrlSubmit \/ OcrSettles
InitOcr == InitWith([NoBudget EXCEPT !.ocr = MaxOcr, !.events = MaxEvents])
NextOcrPage == NextOcr \/ NextAnalytics
SpecOcr == InitOcr /\ [][NextOcrPage]_vars

\* Every request-issuing widget outside the Scholar widget.  The widgets
\* share no state (only the OCR tool calls the tracker), so a behaviour
\* exercises one of them.
MaxRequestSends == 2    \* chat messages sent on the page of SpecRequests
MaxRequestEvents == 2   \* analytics events tracked on the page of SpecRequests
RequestBudgets ==
    {[NoBudget EXCEPT !.chat = MaxRequestSends],
     [NoBudget EXCEPT !.blogLoads = MaxBlogLoads, !.searches = MaxSearches],
     [NoBudget EXCEPT !.ocr = MaxOcr, !.events = MaxRequestEvents],
     [NoBudget EXCEPT !.events = MaxRequestEvents]}
InitRequests == \E b \in RequestBudgets : InitWith(b)
NextRequests ==
    \/ UserTypes \/ ClickSend \/ PressEnter \/ SelectSuggestion
    \/ SendMessageProgrammatically \/ ChatSettles \/ WelcomeFires
    \/ StatusTimerFires \/ PageVisible
    \/ BlogInit \/ BlogFetchSettles \/ SearchSubmit \/ SearchSettles
    \/ AnalyticsInit \/ TrackEvent \/ SendSettles \/ GoOnline \/ GoOffline
    \/ OcrFileUpload \/ OcrUrlSubmit \/ OcrSettles
SpecRequests == InitRequests /\ [][NextRequests]_vars

(***************************************************************************)
(* Properties of the Scholar widget.                                       *)
(***************************************************************************)

\* C1: one fetchStats call that finds no fresh cache entry issues at most 3
\* HTTP requests; a successful attempt ends the loop at once (no request
\* follows it), and after the third failed attempt the call is over.
C1_AtMostThreeRequests ==
    /\ requests <= 3
    /\ failed <= 3
    /\ (s_pc \in {"fetching", "waiting"} => failed < 3)
    /\ (s_pc = "fetching" => requests = failed + 1)
    /\ (s_pc = "waiting" => requests = failed)
    /\ (source = "network" => s_pc = "done" /\ requests = failed + 1)
    /\ (failed = 3 => s_pc = "done" /\ requests = 3)

C1_Witness == s_pc = "done" /\ failed = 3 /\ requests = 3

\* C2: when all 3 attempts fail and a cache entry of any age exists,
\* fetchStats returns that entry's metrics and init shows the metrics card;
\* with no cache entry fetchStats throws and init shows the error card.
C2_StaleFallbackShowsMetrics ==
    (s_pc = "done" /\ container /\ failed = 3) =>
        IF scholar_stats_cache.present
        THEN /\ fetchResult = "returned"
             /\ returned = scholar_stats_cache.metrics
             /\ widgetView = "metrics"
        ELSE /\ fetchResult = "thrown"
             /\ widgetView = "error"

\* C3: a cache entry younger than 3 days is returned without any request;
\* an entry aged exactly 3 days or more causes a fetch.
C3_FreshCacheNoRequest ==
    (s_pc # "idle" /\ container /\ startCache.present) =>
        IF startAge < 3 * 24 * 60 * 60 * 1000
        THEN /\ requests = 0
             /\ s_pc = "done"
             /\ fetchResult = "returned"
             /\ source = "cache"
             /\ returned = startCache.metrics
        ELSE /\ requests >= 1
             /\ source # "cache"

C3_Witness ==
    /\ container
    /\ startCache.present
    /\ startAge = 3 * 24 * 60 * 60 * 1000
    /\ requests >= 1

\* C4: after failed attempt k (k = 1, 2) the wait before attempt k+1 is
\* 1000*k ms, so the waits strictly increase, and there is no wait after the
\* third failure.
C4_BackoffGrows ==
    /\ Len(delays) <= 2
    /\ \A k \in 1..Len(delays) : delays[k] = 1000 * k
    /\ \A k \in 2..Len(delays) : delays[k] > delays[k - 1]
    /\ (s_pc = "fetching" => Len(delays) = failed)
    /\ (s_pc = "waiting" => Len(delays) = failed - 1)
    /\ (failed = 3 => s_pc = "done" /\ Len(delays) = 2)

C4_Witness == failed = 3 /\ delays = <<1000, 2000>>

\* C5: with its container present and every fetch and timer settling, init
\* always leaves the loading state: it ends on the metrics card or on the
\* error card, and no exception leaves init.
C5_InitLeavesLoading ==
    /\ [](s_pc = "done" /\ container => widgetView \in {"metrics", "error"})
    /\ []~escaped
    /\ (widgetView = "loading" ~> widgetView \in {"metrics", "error"})

C5_Witness ==
    /\ s_pc = "done"
    /\ container
    /\ fetchResult = "returned"
    /\ RenderThrows(returned)
    /\ widgetView = "error"

(***************************************************************************)
(* Properties of the blog loader, the chat widget and the other requests.  *)
(***************************************************************************)

\* C6: if the post fetch of BlogLoader.init fails (network error, non-OK
\* status, unreadable body, success false, posts not an array), the error
\* banner with the 'Unable to load blog posts' text is shown, the loading
\* indicator is hidden, init renders no post and no exception leaves init.
C6_FetchFailureShowsError ==
    b_reply \in {"reject", "httpError", "badJson", "successFalse", "postsNotArray"} =>
        /\ b_pc = "done"
        /\ errorVisible
        /\ errorText = "Unable to load blog posts. Please try again later."
        /\ ~loadingVisible
        /\ ~initRendered
        /\ latestPosts = <<>>
        /\ (searchCount = 0 => grid = <<>> /\ ~gridVisible)
        /\ ~initEscaped

C6_Witness ==
    /\ b_reply = "postsNotArray"
    /\ b_pc = "done"
    /\ errorVisible
    /\ ~loadingVisible

ChatFailureKinds == {"reject", "httpError", "successFalse"}
ErrorMessages(history) ==
    Cardinality({i \in 1..Len(history) : history[i].kind = "error"})

\* C7: when a chat request fails (fetch rejects, status not OK, or success
\* false), sendMessage adds exactly one error bot message, removes the typing
\* indicator (none is left for a request that is no longer pending),
\* re-enables the input and the send button, and the failure does not leave
\* sendMessage.
C7_ChatFailureHandled ==
    [][(chatSettled' = chatSettled + 1 /\ lastChatOutcome' \in ChatFailureKinds) =>
         /\ Len(messageHistory') = Len(messageHistory) + 1
         /\ ErrorMessages(messageHistory') = ErrorMessages(messageHistory) + 1
         /\ messageHistory'[Len(messageHistory')] = Msg("bot", "error", FALSE)
         /\ (typingIndicators' < typingIndicators \/ typingIndicators' = 0)
         /\ typingIndicators' <= Cardinality(chatInFlight')
         /\ ~inputDisabled'
         /\ ~sendDisabled'
         /\ ~chatEscaped'
         /\ Cardinality(chatInFlight') = Cardinality(chatInFlight) - 1]_vars

C7_Witness ==
    /\ lastChatOutcome = "httpError"
    /\ chatInFlight = {}
    /\ typingIndicators = 0
    /\ ~inputDisabled
    /\ ~sendDisabled
    /\ Len(messageHistory) > 0
    /\ messageHistory[Len(messageHistory)].kind = "error"

NoRetryOfUserRequests ==
    /\ \A req \in chatInFlight : req.sent <= 1
    /\ b_requests <= 1
    /\ \A sr \in searches : sr.sent <= 1
    /\ \A req \in ocrInFlight : req.sent <= 1

\* C8 (as stated): outside the Scholar widget no failed request is sent again
\* unless the user triggers the operation again - neither a chat message, a
\* blog fetch, an OCR request nor an analytics event.
C8_NoRetryAnywhere ==
    /\ NoRetryOfUserRequests
    /\ \A e \in DOMAIN sendsOf : sendsOf[e] <= 1

\* C8 (amended): a chat message, blog fetch or OCR request is never sent
\* again; an analytics event is fetched a second time only if its fetch
\* rejected and put it back on the queue, and then by the processQueue that
\* the browser's online event runs.
C8_NoRetryButAnalyticsQueue ==
    /\ []NoRetryOfUserRequests
    /\ [][\A e \in DOMAIN sendsOf :
            (sendsOf'[e] > sendsOf[e] /\ sendsOf[e] >= 1) =>
                /\ e \in Range(queue)
                /\ ~isOnline
                /\ isOnline'
                /\ queue' = <<>>]_vars

C8_Witness ==
    /\ lastChatOutcome \in ChatFailureKinds
    /\ chatSends >= 1
    /\ chatSettled = chatSends
    /\ chatInFlight = {}

\* C9: at most one chat request is in flight at any time, whatever the
\* interleaving of send clicks, Enter presses, suggestion clicks and
\* sendMessageProgrammatically calls.
C9_OneChatRequestInFlight == Cardinality(chatInFlight) <= 1

AllPages(posts, tp) ==
    LET f[p \in 0..tp] == IF p = 0 THEN <<>> ELSE f[p - 1] \o PostsToDisplay(posts, p)
    IN f[tp]

\* C10: for a non-empty list of n posts renderPosts(posts, p) sets totalPages
\* to ceil(n/6) and currentPage to min(p, totalPages), and shows exactly the
\* posts with indices (currentPage-1)*6 up to but excluding
\* min(currentPage*6, n); every page shows 1 to 6 posts, and pages
\* 1..totalPages together show every post exactly once, in list order.
C10_Pagination ==
    (lastPage >= 1 /\ Len(lastPosts) > 0) =>
        LET n == Len(lastPosts)
            lo == (currentPage - 1) * 6
            hi == IF currentPage * 6 < n THEN currentPage * 6 ELSE n
        IN /\ allValidPosts = lastPosts
           /\ totalPages * 6 >= n
           /\ (totalPages - 1) * 6 < n
           /\ currentPage = (IF lastPage < totalPages THEN lastPage ELSE totalPages)
           /\ Len(grid) = hi - lo
           /\ \A i \in 1..Len(grid) : grid[i] = lastPosts[lo + i]
           /\ \A p \in 1..totalPages :
                /\ Len(PostsToDisplay(lastPosts, p)) >= 1
                /\ Len(PostsToDisplay(lastPosts, p)) <= 6
           /\ AllPages(lastPosts, totalPages) = lastPosts

C10_Witness ==
    /\ Len(lastPosts) = 13
    /\ lastPage = 4
    /\ totalPages = 3
    /\ currentPage = 3
    /\ Len(grid) = 1

(***************************************************************************)
(* Properties of the post filter, the homepage rotation and the stored     *)
(* histories.                                                              *)
(***************************************************************************)

WantedPost(post) ==
    /\ post.idea # Undefined
    /\ Trim(post.idea) # ""
    /\ post.status # Undefined
    /\ Trim(ToLowerCase(post.status)) \in {"ready", "posted"}
WantedAt(posts) == {k \in 1..Len(posts) : WantedPost(posts[k])}
IsSelectionOf(out, posts) ==
    /\ Len(out) = Cardinality(WantedAt(posts))
    /\ \A j \in 1..Len(out) :
         \E k \in WantedAt(posts) :
            /\ Cardinality({i \in WantedAt(posts) : i < k}) = j - 1
            /\ out[j] = posts[k]
Cards(seq) == {seq[i] : i \in 1..Len(seq)}

\* C11: filterPosts returns, in the original order, exactly the posts whose
\* idea is non-empty after trimming and whose status, lower-cased and
\* trimmed, is 'ready' or 'posted'; no other post is ever shown in the blog
\* grid or in the homepage preview.
C11_OnlyValidPostsShown ==
    /\ (b_outcome = "rendered" /\ isBlogPage /\ searchCount = 0 /\ clicks = 0) =>
           IsSelectionOf(lastPosts, allPosts)
    /\ (b_outcome = "rendered" /\ ~isBlogPage) =>
           Cards(latestPosts) \subseteq {allPosts[k] : k \in WantedAt(allPosts)}
    /\ \A post \in Cards(grid) \cup Cards(latestPosts) \cup Cards(allValidPosts) :
           WantedPost(post)

C11_Witness ==
    /\ b_outcome = "rendered"
    /\ isBlogPage
    /\ searchCount = 0
    /\ clicks = 0
    /\ Len(allPosts) = 2 * MaxPosts
    /\ Len(lastPosts) = MaxPosts
    /\ Len(grid) = POSTS_PER_PAGE
    /\ \E k \in 1..Len(allPosts) :
          /\ allPosts[k].status = " Posted "
          /\ allPosts[k] \in Cards(grid)

HomepageRenders ==
    b_pc = "fetching" /\ b_pc' = "done" /\ ~isBlogPage /\ b_reply' = "ok"

\* C12: renderHomepagePosts advances the stored blog_rotation_index by 6
\* modulo the number of posts only when more than 2 hours have passed since
\* blog_last_rotation, and then stores the current time as
\* blog_last_rotation; a render within the 2 hours leaves both keys as they
\* are and shows the posts that start at the stored index.
C12_HomepageRotation ==
    [][HomepageRenders =>
         LET posts == SelectSeq(allPosts', WantedPost)
             n == Len(posts)
             stored == ParseStored(blog_rotation_index)
         IN IF now - ParseStored(blog_last_rotation) > 2 * 60 * 60 * 1000
            THEN /\ blog_last_rotation' = Stored(now)
                 /\ n > 0 =>
                      /\ blog_rotation_index' \in {Stored(k) : k \in 0..(n - 1)}
                      /\ stored \in Nat =>
                           blog_rotation_index' = Stored((stored + 6) % n)
            ELSE /\ UNCHANGED <<blog_rotation_index, blog_last_rotation>>
                 /\ n > 0 =>
                      /\ stored \in Nat
                      /\ latestPosts' =
                           [i \in 1..Min(6, n) |-> posts[((stored + i - 1) % n) + 1]]]_vars

C16_CacheWrittenOnSuccess ==
    /\ [][scholar_stats_cache' # scholar_stats_cache =>
            /\ s_pc = "fetching"
            /\ failed' = failed
            /\ responseOk'
            /\ source' = "network"
            /\ returned'.found
            /\ returned'.All
            /\ scholar_stats_cache' =
                  [present |-> TRUE, metrics |-> returned', timestamp |-> now]]_vars
    /\ [][failed' = failed + 1 => scholar_stats_cache' = scholar_stats_cache]_vars

C16_Witness ==
    /\ failed = 1
    /\ source = "network"
    /\ responseOk
    /\ scholar_stats_cache.present
    /\ scholar_stats_cache.metrics = returned
    /\ scholar_stats_cache # startCache
    /\ startCache.present

\* C17: with auto-tracking on, the first time the scroll position reaches at
\* least 25%, 50%, 75% or 90% of the page a scroll_depth event carrying that
\* milestone is tracked, and each milestone is tracked at most once per page
\* load.
C17_ScrollMilestones ==
    /\ \A depth \in {25, 50, 75, 90} :
         (autoTrack /\ maxScrollDepth >= depth) =>
             \E i \in 1..Len(scrollTracked) : scrollTracked[i] = depth
    /\ \A i, j \in 1..Len(scrollTracked) :
         scrollTracked[i] = scrollTracked[j] => i = j

FetchesOf(counts, e) == IF e \in DOMAIN counts THEN counts[e] ELSE 0
IsPrefix(a, b) == Len(a) <= Len(b) /\ SubSeq(b, 1, Len(a)) = a

\* C18: an analytics event is sent over the network only while isOnline is
\* true and apiUrl is non-empty; track queues the event otherwise; init and
\* the browser's online event drain the queue, sending every queued event in
\* FIFO order and leaving the queue empty; processQueue, and so init and the
\* online event, changes nothing when offline, unconfigured, or when the
\* queue is empty.
C18_SendOnlyWhenOnline ==
    /\ [][\A e \in DOMAIN sendsOf' :
            sendsOf'[e] > FetchesOf(sendsOf, e) => (isOnline' /\ apiUrl' # "")]_vars
    /\ [][(nextEvent' = nextEvent + 1 /\ apiUrl' = apiUrl) =>
            IF isOnline /\ apiUrl # ""
            THEN /\ sendsOf'[nextEvent] = 1
                 /\ nextEvent \in eventsInFlight'
                 /\ queue' = queue
            ELSE /\ sendsOf'[nextEvent] = 0
                 /\ nextEvent \notin eventsInFlight'
                 /\ queue' = Append(queue, nextEvent)]_vars
    /\ [][((apiUrl = "" /\ apiUrl' # "") \/ (~isOnline /\ isOnline')) =>
            IF isOnline' /\ apiUrl' # ""
            THEN /\ queue' = <<>>
                 /\ lastBatch' = queue
                 /\ Range(queue) \subseteq eventsInFlight'
                 /\ \A e \in Range(queue) : sendsOf'[e] = sendsOf[e] + 1
            ELSE /\ IsPrefix(queue, queue')
                 /\ lastBatch' = <<>>
                 /\ \A e \in Range(queue) : sendsOf'[e] = sendsOf[e]]_vars
    /\ []((~isOnline \/ apiUrl = "" \/ queue = <<>>) =>
            ProcessQueue(Tracker) = Tracker)

C18_Witness ==
    /\ isOnline
    /\ apiUrl # ""
    /\ Len(lastBatch) = 2
    /\ queue = <<>>
    /\ \A e \in Range(lastBatch) : e \in eventsInFlight \cup eventsDelivered

\* C19: the connection indicator shows 'offline' once 3 consecutive chat
\* requests have failed (reconnectAttempts >= maxReconnectAttempts) and stays
\* 'offline' until a request succeeds; a successful request resets
\* reconnectAttempts to 0 and shows 'online'.
C19_OfflineUntilSuccess ==
    /\ [](reconnectAttempts >= maxReconnectAttempts => connectionStatus = "offline")
    /\ [][(chatSettled' = chatSettled + 1 /\ lastChatOutcome' = "success") =>
            (reconnectAttempts' = 0 /\ connectionStatus' = "online")]_vars

(***************************************************************************)
(* Properties of the page links.                                           *)
(***************************************************************************)
\* Only non-empty lists have been rendered since the page was loaded: an
\* empty list shows #no-posts-message, which renderPosts never hides.
OnlyNonEmptyRenders == gridVisible /\ ~noPostsVisible

\* The links of #pagination-section that are on display.
ShownLinks == IF paginationVisible THEN pageLinks ELSE NoLinks

\* C20: after any sequence of page-link clicks and renders of non-empty
\* result lists, 1 <= currentPage <= totalPages; every rendered page link
\* (Prev, Next, numbered, first, last) targets a page in 1..totalPages; Prev
\* is a link iff currentPage > 1 and Next is a link iff currentPage <
\* totalPages; and the numbered window lists at most 5 consecutive pages
\* that include currentPage.
C20_PageLinks ==
    OnlyNonEmptyRenders =>
        /\ 1 <= currentPage /\ currentPage <= totalPages
        /\ LinkTargets(ShownLinks) \subseteq 1..totalPages
        /\ ShownLinks.prev # {} <=> currentPage > 1
        /\ ShownLinks.next # {} <=> currentPage < totalPages
        /\ paginationVisible =>
              LET window == ShownLinks.window IN
              /\ Len(window) <= 5
              /\ \A i \in 1..(Len(window) - 1) : window[i + 1] = window[i] + 1
              /\ \E i \in 1..Len(window) : window[i] = currentPage

C20_Witness ==
    /\ OnlyNonEmptyRenders
    /\ clicks = MaxPageClicks
    /\ totalPages = 8
    /\ currentPage = 4
    /\ pageLinks.first = {1}
    /\ pageLinks.last = {8}
    /\ Len(pageLinks.window) = 5

(***************************************************************************)
(* Properties of the OCR requests.                                         *)
(***************************************************************************)
\* An OCR request settles in this step.
OcrRequestSettles == \E req \in ocrInFlight : ocrInFlight' = ocrInFlight \ {req}

\* C21: for an OCR file-upload or URL request, a response with success true
\* displays the results and prepends exactly one history item without
\* showing an error; a response with success false or a failed request shows
\* an error and leaves the history unchanged; an invalid or missing file
\* sends no request; and in every case both submit buttons are re-enabled
\* once the request settles.
C21_OcrOutcomes ==
    /\ [](\A req \in ocrInFlight : req.kind = "file" => ValidateFile(req.file))
    /\ [][OcrRequestSettles =>
            /\ ~ocrButtonsDisabled'
            /\ IF ocrReply' \in {"success", "successNoText"}
               THEN /\ ocrResultsVisible'
                    /\ ~ocrErrorVisible'
                    /\ Len(processingHistory') >= 1
                    /\ processingHistory' =
                         AddToHistory(processingHistory, processingHistory'[1])
                    /\ Len(processingHistory') = Min(HistoryLimit, Len(processingHistory) + 1)
               ELSE /\ ocrErrorVisible'
                    /\ processingHistory' = processingHistory]_vars

(***************************************************************************)
(* Further properties of the Scholar widget, the homepage rotation, the    *)
(* tracker and the blog page.                                              *)
(***************************************************************************)
\* C22: metrics that fetchStats accepts are always renderable: whenever
\* fetchStats returns (from a fresh fetch, a fresh cache entry or the
\* expired-cache fallback) the returned object has an All field and init ends
\* with the metrics card, not the error card; scholar_stats_cache is only
\* ever written by cacheData.
C22_AcceptedMetricsRender ==
    (s_pc = "done" /\ container /\ fetchResult = "returned") =>
        /\ returned.found
        /\ returned.All
        /\ widgetView = "metrics"

\* C23: after any sequence of homepage renders with any post lists (an empty
\* list and lists of changing length included) the value stored under
\* blog_rotation_index parses to a non-negative integer, and every render of
\* n >= 1 posts displays exactly min(6, n) distinct posts taken cyclically
\* starting at that index.
C23_RotationIndexValid ==
    /\ [](/\ ParseStored(blog_rotation_index) # NaN
          /\ ParseStored(blog_rotation_index) \in Nat)
    /\ [][HomepageRenders =>
            LET posts == SelectSeq(allPosts', WantedPost)
                n == Len(posts)
                index == ParseStored(blog_rotation_index')
            IN n >= 1 =>
                 /\ Len(latestPosts') = Min(6, n)
                 /\ \A i, j \in 1..Len(latestPosts') :
                      i # j => latestPosts'[i] # latestPosts'[j]
                 /\ \A i \in 1..Len(latestPosts') :
                      latestPosts'[i] = posts[((index + i - 1) % n) + 1]]_vars

\* C24: no tracked analytics event is lost: at every moment each event
\* passed to track is in the queue, in flight in a fetch, or its fetch has
\* resolved; an event whose fetch rejects is put back in the queue, also when
\* processQueue or an online/offline change interleaves with the in-flight
\* send.
C24_NoEventLost ==
    /\ [](\A e \in 1..(nextEvent - 1) :
            e \in Range(queue) \cup eventsInFlight \cup eventsDelivered)
    /\ [][\A e \in eventsInFlight :
            (e \notin eventsInFlight' /\ e \notin eventsDelivered') =>
                queue' = Append(queue, e)]_vars

C24_Witness ==
    /\ ~isOnline
    /\ \E e \in eventsInFlight : sendsOf[e] = 2
    /\ \E e \in Range(queue) : sendsOf[e] = 1
    /\ eventsDelivered # {}

\* Every post-list request of the page has settled.
BlogRequestsSettled == b_pc = "done" /\ searches = {}

\* C25: when several post-list requests overlap on the blog page (the
\* initial load and one or more searches), the grid finally shows the result
\* of the most recently submitted search, whatever the order in which the
\* responses arrive.
C25_LatestSearchWins ==
    (/\ isBlogPage
     /\ BlogRequestsSettled
     /\ searchCount >= 1
     /\ clicks = 0
     /\ searchResult[searchCount].state = "rendered") =>
        LET result == searchResult[searchCount].posts IN
        /\ lastPosts = result
        /\ result # <<>> => grid = PostsToDisplay(result, 1)

\* C26: on the blog page the 'no posts' message and a populated post grid
\* are never visible together: after any sequence of searches and page
\* clicks the no-posts message is visible iff the most recently rendered
\* result set is empty, and otherwise the grid holds exactly the cards of that
\* result set's current page.
C26_NoPostsOrGrid ==
    (isBlogPage /\ lastPage >= 1) =>
        /\ ~(noPostsVisible /\ gridVisible /\ grid # <<>>)
        /\ noPostsVisible <=> lastPosts = <<>>
        /\ lastPosts # <<>> => grid = PostsToDisplay(lastPosts, currentPage)

====
